---- MODULE Spec2Model ----
(***************************************************************************)
(* PyScoundrel: the game engine (game/engine.py), the game state           *)
(* (game/state.py) and the models it drives (models/room.py, deck.py,      *)
(* player.py, weapon.py, card.py), as a state machine.  One action per     *)
(* engine operation; every action is the whole handler, rejected calls     *)
(* included.  The last ActionResult returned is kept in `result`.          *)
(***************************************************************************)
EXTENDS Integers, Sequences, FiniteSets, TLC

VARIABLES
    phase,                        \* GameState.phase
    turn_number,                  \* GameState.turn_number
    rooms_avoided_consecutively,  \* GameState.rooms_avoided_consecutively
    last_card_was_potion,         \* GameState.last_card_was_potion
    game_over,                    \* GameState.game_over
    victory,                      \* GameState.victory
    health,                       \* Player.health
    equipped_weapon,              \* Player.equipped_weapon: <<>> or <<Weapon>>
    potions_used_this_turn,       \* Player.potions_used_this_turn
    deck,                         \* Deck._cards, front = top
    current_room,                 \* GameState.current_room: <<>> or <<Room>>
    discard_pile,                 \* GameState.discard_pile
    result,                       \* the ActionResult of the last call
    pending,                      \* the caller's monster taken from the last
                                  \* face_card outcome and not yet fought
    misuse,                       \* calls made so far that the drivers
                                  \* (__main__.py, run_game) never make
    avoided_since_faced,          \* history: an avoid_room has succeeded and
                                  \* no room has had 3 cards faced since
    rng,                          \* the state of the generator of module
                                  \* random, one per process
    builds                        \* the Deck.from_dungeon calls under way,
                                  \* one per game instance

gameVars == <<phase, turn_number, rooms_avoided_consecutively,
              last_card_was_potion, game_over, victory, health,
              equipped_weapon, potions_used_this_turn, deck, current_room,
              discard_pile>>

vars == <<phase, turn_number, rooms_avoided_consecutively,
          last_card_was_potion, game_over, victory, health,
          equipped_weapon, potions_used_this_turn, deck, current_room,
          discard_pile, result, pending, misuse, avoided_since_faced,
          rng, builds>>

\* what a game in progress leaves alone: no engine operation draws a random
\* number or builds a pile
buildVars == <<rng, builds>>

----------------------------------------------------------------------------
(* Bounds of the model *)

\* largest draw pile the games start from (the smallest fills one room)
MaxPile == 7
\* the piles are the pool cut at positions 0..MaxCut
MaxCut == 1
\* calls outside the drivers' protocol that may end a behaviour
MaxMisuse == 1

----------------------------------------------------------------------------
(* Cards: frozen dataclasses, equal when their fields are equal *)

MONSTER == "Monster"
WEAPON == "Weapon"
HEALTH_POTION == "Health Potion"

Card(id, kind, value) == [card_id |-> id, card_type |-> kind, value |-> value]

\* CardDefinition: a pool entry expanded into `count` equal cards
Def(id, kind, value, count) ==
    [id |-> id, card_type |-> kind, value |-> value, count |-> count]

\* Deck.from_dungeon, lines 72-81: `count` copies of each definition, in order
RECURSIVE Expand(_)
Expand(defs) ==
    IF defs = <<>> THEN <<>>
    ELSE LET d == Head(defs)
         IN  [i \in 1..d.count |-> Card(d.id, d.card_type, d.value)]
                 \o Expand(Tail(defs))

\* a pool of distinct definitions, one card each
DistinctPool ==
    <<Def("p4", HEALTH_POTION, 4, 1), Def("m6", MONSTER, 6, 1),
      Def("p3", HEALTH_POTION, 3, 1), Def("m14", MONSTER, 14, 1),
      Def("w5", WEAPON, 5, 1), Def("w3", WEAPON, 3, 1),
      Def("p2", HEALTH_POTION, 2, 1), Def("w2", WEAPON, 2, 1),
      Def("p5", HEALTH_POTION, 5, 1)>>

\* a pool whose definitions have replicas: field-identical cards
ReplicaPool ==
    <<Def("m6", MONSTER, 6, 2), Def("p4", HEALTH_POTION, 4, 2),
      Def("w5", WEAPON, 5, 1), Def("m14", MONSTER, 14, 2),
      Def("p3", HEALTH_POTION, 3, 2)>>

Pools == {DistinctPool, ReplicaPool}

\* the monsters callers can name in a fight
Monsters ==
    {c \in UNION {{Expand(pool)[i] : i \in 1..Len(Expand(pool))} : pool \in Pools} :
        c.card_type = MONSTER}

Min(a, b) == IF a <= b THEN a ELSE b
Max(a, b) == IF a >= b THEN a ELSE b

Rotate(s, k) == [i \in 1..Len(s) |-> s[((i - 1 + k) % Len(s)) + 1]]

\* Shuffled piles: the first n cards of a pool's expansion, cut at position k
\* (k = 0 is the unshuffled pile).
Piles ==
    {Rotate(SubSeq(Expand(pool), 1, Min(n, Len(Expand(pool)))), k) :
        pool \in Pools, n \in 4..MaxPile, k \in 0..MaxCut}

----------------------------------------------------------------------------
(* Player *)

max_health == 20

\* damage taken without the floor of 0
TakeDamage_NoFloor(h, damage) == h - damage

TakeDamage(h, damage) == Max(0, h - damage)

\* healing without the cap at max_health
Heal_Uncapped(h, amount) == h + amount

Heal(h, amount) == Min(max_health, h + amount)

is_dead == health <= 0

----------------------------------------------------------------------------
(* Weapon *)

NewWeapon(card) == [card |-> card, slain_monsters |-> <<>>]

last_kill_value(w) == w.slain_monsters[Len(w.slain_monsters)].value

\* Weapon.can_kill, lines 66-67: the card it is asked about is not a monster
not_a_monster(card) == card.card_type # MONSTER

\* the lowest value among the kills of a used weapon
lowest_kill_value(w) ==
    CHOOSE v \in {w.slain_monsters[i].value : i \in 1..Len(w.slain_monsters)} :
        \A i \in 1..Len(w.slain_monsters) : v <= w.slain_monsters[i].value

\* a weapon bounded by its weakest kill instead of its most recent one
can_kill_LowestKill(w, monster) ==
    IF Len(w.slain_monsters) = 0 THEN TRUE
    ELSE monster.value <= lowest_kill_value(w)

\* a weapon that no earlier kill restricts
can_kill_Always(w, monster) == TRUE

can_kill(w, monster) ==
    IF Len(w.slain_monsters) = 0 THEN TRUE
    ELSE monster.value <= last_kill_value(w)

\* the damage of an attack without its floor of 0
AttackDamage_NoFloor(w, monster) == monster.value - w.card.value

AttackDamage(w, monster) == Max(0, monster.value - w.card.value)

----------------------------------------------------------------------------
(* Room *)

InSeq(c, s) == \E i \in 1..Len(s) : s[i] = c

is_full(room) == Len(room.cards) = 4

is_complete(room) == Len(room.cards_faced) = 3

\* Room.face_card without its quota check: a fourth card can be faced
FaceCardError_NoQuota(room, index) ==
    IF index < 0 \/ index >= Len(room.cards) THEN "index"
    ELSE IF InSeq(room.cards[index + 1], room.cards_faced) THEN "faced"
    ELSE "ok"

\* Room.face_card with a 0-based index: the error raised, or "ok"
FaceCardError(room, index) ==
    IF Len(room.cards_faced) >= 3 THEN "quota"
    ELSE IF index < 0 \/ index >= Len(room.cards) THEN "index"
    ELSE IF InSeq(room.cards[index + 1], room.cards_faced) THEN "faced"
    ELSE "ok"

\* Room.get_remaining_card: <<>> for None
RECURSIVE FirstUnfaced(_, _, _)
FirstUnfaced(cards, faced, i) ==
    IF i > Len(cards) THEN <<>>
    ELSE IF ~InSeq(cards[i], faced) THEN <<cards[i]>>
    ELSE FirstUnfaced(cards, faced, i + 1)

get_remaining_card(room) ==
    IF Len(room.cards_faced) # 3 THEN <<>>
    ELSE FirstUnfaced(room.cards, room.cards_faced, 1)

\* Room.available_cards, as 0-based slot indices
available_indices(room) ==
    {i \in 0..(Len(room.cards) - 1) : ~InSeq(room.cards[i + 1], room.cards_faced)}

----------------------------------------------------------------------------
(* Deck *)

draw_multiple(d, count) == SubSeq(d, 1, Min(count, Len(d)))

\* a pile that gives up its cards from the back
after_draw_FromBack(d, count) == SubSeq(d, 1, Len(d) - Min(count, Len(d)))

after_draw(d, count) == SubSeq(d, Min(count, Len(d)) + 1, Len(d))

\* the cards put back on top of the pile instead of under it
add_to_bottom_OnTop(d, cards) == cards \o d

add_to_bottom(d, cards) == d \o cards

----------------------------------------------------------------------------
(* Game state *)

SETUP == "setup"
DRAW_ROOM == "draw_room"
DECIDE_AVOID == "decide_avoid"
FACE_CARDS == "face_cards"
TURN_COMPLETE == "turn_complete"
GAME_OVER == "game_over"

\* draw_room answering before start_game as well
draw_room_phases_WithSetup == {SETUP, DRAW_ROOM, TURN_COMPLETE}

\* GameEngine.draw_room, line 58: the phases it accepts
draw_room_phases == {DRAW_ROOM, TURN_COMPLETE}

\* GameEngine.face_card, line 124: the phases it accepts
face_card_phases == {DECIDE_AVOID, FACE_CARDS}

\* a new turn that does not count
start_new_turn_Uncounted(turn) == turn

\* GameState.start_new_turn, line 78: the turn counter of the new turn
start_new_turn(turn) == turn + 1

\* a rule that allows two rooms to be avoided in a row
can_avoid_room_Twice == rooms_avoided_consecutively < 2

can_avoid_room == rooms_avoided_consecutively < 1

HasRoom == current_room # <<>>

\* the terminal check with the empty pile tested before the death
check_game_over_PileFirst(h, d) ==
    IF Len(d) = 0 THEN <<TRUE, TRUE, TRUE, GAME_OVER>>
    ELSE IF h <= 0 THEN <<TRUE, TRUE, FALSE, GAME_OVER>>
    ELSE <<FALSE, game_over, victory, phase>>

\* GameState.check_game_over on the health h and pile d the caller has just
\* written: <<returned, game_over, victory, phase>>
check_game_over(h, d) ==
    IF h <= 0 THEN <<TRUE, TRUE, FALSE, GAME_OVER>>
    ELSE IF Len(d) = 0 THEN <<TRUE, TRUE, TRUE, GAME_OVER>>
    ELSE <<FALSE, game_over, victory, phase>>

\* GameEngine._check_turn_complete: the phase it leaves, given the phase ph
\* the handler has reached and the room (<<>> or <<Room>>) it has written
check_turn_complete(room, ph) ==
    IF room # <<>> /\ is_complete(room[1]) THEN TURN_COMPLETE ELSE ph

\* the loss penalty taken over every card of the pile, whatever its kind
MonsterSum_EveryCard(d) ==
    LET RECURSIVE S(_)
        S(i) == IF i > Len(d) THEN 0 ELSE d[i].value + S(i + 1)
    IN S(1)

MonsterSum(d) ==
    LET RECURSIVE S(_)
        S(i) == IF i > Len(d) THEN 0
                ELSE (IF d[i].card_type = MONSTER THEN d[i].value ELSE 0) + S(i + 1)
    IN S(1)

\* a loss scored as the health left less the monsters of the pile
score_LossKeepsHealth ==
    IF game_over
    THEN IF victory THEN health ELSE health - MonsterSum(deck)
    ELSE 0

score ==
    IF game_over
    THEN IF victory THEN health ELSE 0 - MonsterSum(deck)
    ELSE 0

----------------------------------------------------------------------------
(* ActionResult *)

NoResult == [op |-> "none", success |-> TRUE, damage_taken |-> 0,
             health_gained |-> 0, monster |-> <<>>, can_use_weapon |-> FALSE,
             player_died |-> FALSE, victory |-> FALSE, error |-> "none"]

Ok(op) == [NoResult EXCEPT !.op = op]

Rejected(op, why) == [NoResult EXCEPT !.op = op, !.success = FALSE, !.error = why]

----------------------------------------------------------------------------
(* The drivers' protocol: the calls __main__.py and run_game make *)

LegalStart == phase = SETUP

LegalDraw ==
    /\ ~game_over
    /\ phase \in {DRAW_ROOM, TURN_COMPLETE}
    /\ pending = <<>>

LegalAvoid ==
    /\ ~game_over
    /\ phase = DECIDE_AVOID
    /\ can_avoid_room

LegalFace(index) ==
    /\ ~game_over
    /\ phase \in {DECIDE_AVOID, FACE_CARDS}
    /\ pending = <<>>
    /\ HasRoom
    /\ ~is_complete(current_room[1])
    /\ index \in available_indices(current_room[1])

LegalBarehanded(monster) == pending = <<monster>>

LegalWithWeapon(monster) == pending = <<monster>> /\ result.can_use_weapon

LegalQuit ==
    /\ ~game_over
    /\ phase \in {DECIDE_AVOID, FACE_CARDS}
    /\ pending = <<>>

\* A behaviour is a run of the protocol followed by at most MaxMisuse calls
\* of any kind: the first call outside the protocol and every call after it
\* use up one unit of the budget.
Budget(legal) ==
    IF legal /\ misuse = 0 THEN misuse' = misuse
    ELSE misuse < MaxMisuse /\ misuse' = misuse + 1

----------------------------------------------------------------------------
(* Engine operations *)

Init ==
    /\ rng = 0
    /\ builds = <<>>
    /\ phase = SETUP
    /\ turn_number = 0
    /\ rooms_avoided_consecutively = 0
    /\ last_card_was_potion = FALSE
    /\ game_over = FALSE
    /\ victory = FALSE
    /\ health = max_health
    /\ equipped_weapon = <<>>
    /\ potions_used_this_turn = 0
    /\ deck \in Piles
    /\ current_room = <<>>
    /\ discard_pile = <<>>
    /\ result = NoResult
    /\ pending = <<>>
    /\ misuse = 0
    /\ avoided_since_faced = FALSE

\* start_game reshuffling the pile without a seed: any cut may come out
StartGame_Reshuffles ==
    /\ UNCHANGED buildVars
    /\ Budget(LegalStart)
    /\ phase' = DRAW_ROOM
    /\ deck' \in {Rotate(deck, k) : k \in 0..1}
    /\ result' = Ok("start_game")
    /\ UNCHANGED <<turn_number, rooms_avoided_consecutively,
                   last_card_was_potion, game_over, victory, health,
                   equipped_weapon, potions_used_this_turn,
                   current_room, discard_pile, pending,
                   avoided_since_faced>>

StartGame ==
    /\ UNCHANGED buildVars
    /\ Budget(LegalStart)
    /\ phase' = DRAW_ROOM
    /\ result' = Ok("start_game")
    /\ UNCHANGED <<turn_number, rooms_avoided_consecutively,
                   last_card_was_potion, game_over, victory, health,
                   equipped_weapon, potions_used_this_turn, deck,
                   current_room, discard_pile, pending,
                   avoided_since_faced>>

DrawRoom ==
    /\ UNCHANGED buildVars
    /\ Budget(LegalDraw)
    /\ UNCHANGED avoided_since_faced
    /\ IF phase \notin draw_room_phases
       THEN /\ result' = Rejected("draw_room", "phase")
            /\ UNCHANGED <<gameVars, pending>>
       ELSE LET leftover == IF HasRoom /\ is_complete(current_room[1])
                            THEN get_remaining_card(current_room[1])
                            ELSE <<>>
                cards_needed == 4 - Len(leftover)
                cards == leftover \o draw_multiple(deck, cards_needed)
                rest == after_draw(deck, cards_needed)
                over == check_game_over(health, rest)
            IN  /\ deck' = rest
                /\ pending' = <<>>
                /\ IF Len(cards) # 4
                   THEN /\ game_over' = over[2]
                        /\ victory' = over[3]
                        /\ phase' = over[4]
                        /\ result' = [Ok("draw_room") EXCEPT !.victory = TRUE]
                        /\ UNCHANGED <<current_room, turn_number,
                                       potions_used_this_turn,
                                       last_card_was_potion>>
                   ELSE /\ current_room' = <<[cards |-> cards, cards_faced |-> <<>>]>>
                        /\ turn_number' = start_new_turn(turn_number)
                        /\ potions_used_this_turn' = 0
                        /\ last_card_was_potion' = FALSE
                        /\ phase' = DECIDE_AVOID
                        /\ result' = Ok("draw_room")
                        /\ UNCHANGED <<game_over, victory>>
                /\ UNCHANGED <<rooms_avoided_consecutively, health,
                               equipped_weapon, discard_pile>>

AvoidRoom ==
    /\ UNCHANGED buildVars
    /\ Budget(LegalAvoid)
    /\ IF ~can_avoid_room
       THEN /\ result' = Rejected("avoid_room", "twice")
            /\ UNCHANGED <<gameVars, pending, avoided_since_faced>>
       ELSE IF ~HasRoom \/ ~is_full(current_room[1])
       THEN /\ result' = Rejected("avoid_room", "no_room")
            /\ UNCHANGED <<gameVars, pending, avoided_since_faced>>
       ELSE /\ deck' = add_to_bottom(deck, current_room[1].cards)
            /\ rooms_avoided_consecutively' = rooms_avoided_consecutively + 1
            /\ current_room' = <<>>
            /\ phase' = DRAW_ROOM
            /\ pending' = <<>>
            /\ result' = Ok("avoid_room")
            /\ avoided_since_faced' = TRUE
            /\ UNCHANGED <<turn_number, last_card_was_potion, game_over,
                           victory, health, equipped_weapon,
                           potions_used_this_turn, discard_pile>>

\* GameEngine.face_card, lines 131-134: the phase and the avoid counter it
\* writes before it asks the room for the card
enter_face_phase(ph) == IF ph = DECIDE_AVOID THEN FACE_CARDS ELSE ph

\* facing a card that leaves the count of avoided rooms as it was
enter_face_avoided_Kept(ph, avoided) == avoided

enter_face_avoided(ph, avoided) == IF ph = DECIDE_AVOID THEN 0 ELSE avoided

\* the potion check off by one: two potions heal before the cap applies
potion_cap_reached_Late(used) == used >= 2

\* GameEngine._handle_potion, line 234: a potion was already used this turn
potion_cap_reached(used) == used >= 1

\* an old weapon discarded without the monsters it has slain
old_weapon_discard_CardOnly(old) ==
    IF old = <<>> THEN <<>> ELSE <<old[1].card>>

\* GameEngine._handle_weapon: what goes to the discard when a weapon is equipped
old_weapon_discard(old) ==
    IF old = <<>> THEN <<>> ELSE <<old[1].card>> \o old[1].slain_monsters

FaceCard(index) ==
    /\ UNCHANGED buildVars
    /\ Budget(LegalFace(index))
    /\ IF phase \notin face_card_phases
       THEN /\ result' = Rejected("face_card", "phase")
            /\ UNCHANGED <<gameVars, pending, avoided_since_faced>>
       ELSE IF ~HasRoom
       THEN /\ result' = Rejected("face_card", "no_room")
            /\ UNCHANGED <<gameVars, pending, avoided_since_faced>>
       ELSE LET room == current_room[1]
                ph == enter_face_phase(phase)
                err == FaceCardError(room, index)
                card == room.cards[index + 1]
                faced == <<[room EXCEPT !.cards_faced = Append(@, card)]>>
            IN  /\ rooms_avoided_consecutively' =
                       enter_face_avoided(phase, rooms_avoided_consecutively)
                /\ UNCHANGED <<turn_number, game_over, victory, deck>>
                /\ IF err # "ok"
                   THEN /\ phase' = ph
                        /\ result' = Rejected("face_card", err)
                        /\ UNCHANGED <<current_room, health, equipped_weapon,
                                       potions_used_this_turn, discard_pile,
                                       last_card_was_potion, pending,
                                       avoided_since_faced>>
                   ELSE /\ current_room' = faced
                        /\ avoided_since_faced' =
                               (avoided_since_faced /\ ~is_complete(faced[1]))
                        /\ CASE card.card_type = WEAPON ->
                                  /\ equipped_weapon' = <<NewWeapon(card)>>
                                  /\ discard_pile' = discard_pile \o
                                         old_weapon_discard(equipped_weapon)
                                  /\ phase' = check_turn_complete(faced, ph)
                                  /\ result' = Ok("face_card")
                                  /\ UNCHANGED <<health, potions_used_this_turn,
                                                 last_card_was_potion, pending>>
                             [] card.card_type = HEALTH_POTION ->
                                  IF potion_cap_reached(potions_used_this_turn)
                                  THEN /\ discard_pile' = Append(discard_pile, card)
                                       /\ phase' = check_turn_complete(faced, ph)
                                       /\ result' = Ok("face_card")
                                       /\ UNCHANGED <<health, equipped_weapon,
                                                      potions_used_this_turn,
                                                      last_card_was_potion,
                                                      pending>>
                                  ELSE /\ health' = Heal(health, card.value)
                                       /\ potions_used_this_turn' =
                                              potions_used_this_turn + 1
                                       /\ last_card_was_potion' = TRUE
                                       /\ discard_pile' = Append(discard_pile, card)
                                       /\ phase' = check_turn_complete(faced, ph)
                                       /\ result' = [Ok("face_card") EXCEPT
                                              !.health_gained =
                                                  Heal(health, card.value) - health]
                                       /\ UNCHANGED <<equipped_weapon, pending>>
                             [] card.card_type = MONSTER ->
                                  /\ phase' = ph
                                  /\ pending' = <<card>>
                                  /\ result' = [Ok("face_card") EXCEPT
                                         !.monster = <<card>>,
                                         !.can_use_weapon =
                                             /\ equipped_weapon # <<>>
                                             /\ can_kill(equipped_weapon[1], card)]
                                  /\ UNCHANGED <<health, equipped_weapon,
                                                 potions_used_this_turn,
                                                 discard_pile,
                                                 last_card_was_potion>>

\* the caller's pending monster after a fight with `monster` that succeeded
fought(monster) == IF pending = <<monster>> THEN <<>> ELSE pending

\* a barehanded fight that still takes the equipped weapon's value off
barehanded_damage_Armed(monster) ==
    IF equipped_weapon = <<>> THEN monster.value
    ELSE Max(0, monster.value - equipped_weapon[1].card.value)

\* GameEngine.fight_monster_barehanded, line 161: the full value of the monster
barehanded_damage(monster) == monster.value

FightMonsterBarehanded(monster) ==
    /\ UNCHANGED buildVars
    /\ Budget(LegalBarehanded(monster))
    /\ UNCHANGED avoided_since_faced
    /\ LET damage == barehanded_damage(monster)
           h == TakeDamage(health, damage)
           over == check_game_over(h, deck)
       IN  /\ health' = h
           /\ discard_pile' = Append(discard_pile, monster)
           /\ game_over' = over[2]
           /\ victory' = over[3]
           /\ phase' = check_turn_complete(current_room, over[4])
           /\ result' = [Ok("fight_monster_barehanded") EXCEPT
                  !.damage_taken = damage,
                  !.player_died = over[1] /\ ~over[3]]
           /\ pending' = fought(monster)
           /\ UNCHANGED <<turn_number, rooms_avoided_consecutively,
                          last_card_was_potion, equipped_weapon,
                          potions_used_this_turn, deck, current_room>>

FightMonsterWithWeapon(monster) ==
    /\ UNCHANGED buildVars
    /\ Budget(LegalWithWeapon(monster))
    /\ UNCHANGED avoided_since_faced
    /\ IF equipped_weapon = <<>>
       THEN /\ result' = Rejected("fight_monster_with_weapon", "no_weapon")
            /\ UNCHANGED <<gameVars, pending>>
       ELSE IF ~can_kill(equipped_weapon[1], monster)
       THEN /\ result' = Rejected("fight_monster_with_weapon", "cannot_kill")
            /\ UNCHANGED <<gameVars, pending>>
       ELSE LET weapon == equipped_weapon[1]
                damage == AttackDamage(weapon, monster)
                h == TakeDamage(health, damage)
                over == check_game_over(h, deck)
            IN  /\ equipped_weapon' =
                       <<[weapon EXCEPT !.slain_monsters = Append(@, monster)]>>
                /\ health' = h
                /\ game_over' = over[2]
                /\ victory' = over[3]
                /\ phase' = check_turn_complete(current_room, over[4])
                /\ result' = [Ok("fight_monster_with_weapon") EXCEPT
                       !.damage_taken = damage,
                       !.player_died = over[1] /\ ~over[3]]
                /\ pending' = fought(monster)
                /\ UNCHANGED <<turn_number, rooms_avoided_consecutively,
                               last_card_was_potion, potions_used_this_turn,
                               deck, current_room, discard_pile>>

\* GameState.mark_quit, called by ScoundrelGame.run when the player quits
MarkQuit ==
    /\ UNCHANGED buildVars
    /\ Budget(LegalQuit)
    /\ game_over' = TRUE
    /\ victory' = FALSE
    /\ phase' = GAME_OVER
    /\ result' = Ok("mark_quit")
    /\ UNCHANGED <<turn_number, rooms_avoided_consecutively,
                   last_card_was_potion, health, equipped_weapon,
                   potions_used_this_turn, deck, current_room, discard_pile,
                   pending, avoided_since_faced>>

\* the slot indices callers try: every slot, one below and one above
Indices == -1..4

Next ==
    \/ StartGame
    \/ DrawRoom
    \/ AvoidRoom
    \/ \E index \in Indices : FaceCard(index)
    \/ \E monster \in Monsters : FightMonsterBarehanded(monster)
    \/ \E monster \in Monsters : FightMonsterWithWeapon(monster)
    \/ MarkQuit

Spec == Init /\ [][Next]_vars

----------------------------------------------------------------------------
(* The agent loop of run_game (tests/integration/conftest.py) and of         *)
(* ScoundrelGame in agent mode: protocol calls only, never a quit, and the   *)
(* loop keeps calling for as long as a call is possible.                     *)

PlayStartGame == LegalStart /\ StartGame

PlayDrawRoom == LegalDraw /\ DrawRoom

PlayAvoidRoom == LegalAvoid /\ AvoidRoom

PlayFaceCard == \E index \in Indices : LegalFace(index) /\ FaceCard(index)

PlayBarehanded ==
    \E monster \in Monsters :
        LegalBarehanded(monster) /\ FightMonsterBarehanded(monster)

PlayWithWeapon ==
    \E monster \in Monsters :
        LegalWithWeapon(monster) /\ FightMonsterWithWeapon(monster)

PlayNext ==
    \/ PlayStartGame
    \/ PlayDrawRoom
    \/ PlayAvoidRoom
    \/ PlayFaceCard
    \/ PlayBarehanded
    \/ PlayWithWeapon

Play == Init /\ [][PlayNext]_vars /\ WF_vars(PlayNext)

----------------------------------------------------------------------------
(* The models on their own, as the unit tests call them: a Weapon built    *)
(* with any kill history and a Player, outside any game.                   *)

\* most kills a weapon is built with; an attack may add one more
MaxSlain == 2

goblin == Card("goblin_01", MONSTER, 5)
troll == Card("troll_01", MONSTER, 12)
rat == Card("rat_01", MONSTER, 2)
sword == Card("sword_01", WEAPON, 8)
axe == Card("axe_01", WEAPON, 10)
potion == Card("potion_01", HEALTH_POTION, 6)

UnitCards == {goblin, troll, rat, sword, axe, potion}

UnitMonsters == {c \in UnitCards : c.card_type = MONSTER}

\* the amounts the calls of Player.take_damage and Player.heal are made with
Amounts == {3, 4, 5, 10, 20, 100}

SeqsUpTo(S, n) == UNION {[1..k -> S] : k \in 0..n}

Weapons ==
    {[card |-> c, slain_monsters |-> kills] :
        c \in {c \in UnitCards : c.card_type = WEAPON},
        kills \in SeqsUpTo(UnitMonsters, MaxSlain)}

ModelsInit ==
    /\ rng = 0
    /\ builds = <<>>
    /\ phase = SETUP
    /\ turn_number = 0
    /\ rooms_avoided_consecutively = 0
    /\ last_card_was_potion = FALSE
    /\ game_over = FALSE
    /\ victory = FALSE
    /\ health = max_health
    /\ equipped_weapon \in {<<w>> : w \in Weapons}
    /\ potions_used_this_turn = 0
    /\ deck = <<>>
    /\ current_room = <<>>
    /\ discard_pile = <<>>
    /\ result = NoResult
    /\ pending = <<>>
    /\ misuse = 0
    /\ avoided_since_faced = FALSE

\* Weapon.can_kill(card): the value returned is kept in result.can_use_weapon
WeaponCanKill(card) ==
    /\ UNCHANGED buildVars
    /\ result' = IF not_a_monster(card)
                 THEN [Rejected("can_kill", "not_monster") EXCEPT
                          !.monster = <<card>>]
                 ELSE [Ok("can_kill") EXCEPT
                          !.monster = <<card>>,
                          !.can_use_weapon = can_kill(equipped_weapon[1], card)]
    /\ UNCHANGED <<gameVars, pending, misuse, avoided_since_faced>>

\* Weapon.attack(card): the damage returned is kept in result.damage_taken
WeaponAttack(card) ==
    /\ UNCHANGED buildVars
    /\ Len(equipped_weapon[1].slain_monsters) <= MaxSlain
    /\ IF not_a_monster(card)
       THEN /\ result' = [Rejected("attack", "not_monster") EXCEPT
                             !.monster = <<card>>]
            /\ UNCHANGED equipped_weapon
       ELSE IF ~can_kill(equipped_weapon[1], card)
       THEN /\ result' = [Rejected("attack", "cannot_kill") EXCEPT
                             !.monster = <<card>>]
            /\ UNCHANGED equipped_weapon
       ELSE /\ result' = [Ok("attack") EXCEPT
                             !.monster = <<card>>,
                             !.damage_taken =
                                 AttackDamage(equipped_weapon[1], card)]
            /\ equipped_weapon' =
                   <<[equipped_weapon[1] EXCEPT
                         !.slain_monsters = Append(@, card)]>>
    /\ UNCHANGED <<phase, turn_number, rooms_avoided_consecutively,
                   last_card_was_potion, game_over, victory, health,
                   potions_used_this_turn, deck, current_room, discard_pile,
                   pending, misuse, avoided_since_faced>>

\* Player.take_damage(damage)
PlayerTakeDamage(damage) ==
    /\ UNCHANGED buildVars
    /\ health' = TakeDamage(health, damage)
    /\ result' = [Ok("take_damage") EXCEPT !.damage_taken = damage]
    /\ UNCHANGED <<phase, turn_number, rooms_avoided_consecutively,
                   last_card_was_potion, game_over, victory, equipped_weapon,
                   potions_used_this_turn, deck, current_room, discard_pile,
                   pending, misuse, avoided_since_faced>>

\* Player.heal(amount): the amount returned is kept in result.health_gained
PlayerHeal(amount) ==
    /\ UNCHANGED buildVars
    /\ health' = Heal(health, amount)
    /\ result' = [Ok("heal") EXCEPT
                     !.health_gained = Heal(health, amount) - health]
    /\ UNCHANGED <<phase, turn_number, rooms_avoided_consecutively,
                   last_card_was_potion, game_over, victory, equipped_weapon,
                   potions_used_this_turn, deck, current_room, discard_pile,
                   pending, misuse, avoided_since_faced>>

ModelsNext ==
    \/ \E card \in UnitCards : WeaponCanKill(card)
    \/ \E card \in UnitCards : WeaponAttack(card)
    \/ \E damage \in Amounts : PlayerTakeDamage(damage)
    \/ \E amount \in Amounts : PlayerHeal(amount)

Models == ModelsInit /\ [][ModelsNext]_vars

----------------------------------------------------------------------------
(* Room and Deck on their own, as tests/unit/models drives them: a test     *)
(* builds a deck or a room and calls its methods in any order. The cards a  *)
(* call returns to its caller are kept in pending.                          *)

\* the counts draw_multiple and peek are called with
Counts == 0..5

\* rooms of 3 or 4 cards, none faced
Rooms ==
    {[cards |-> SubSeq(pile, 1, n), cards_faced |-> <<>>] :
        pile \in Piles, n \in 3..4}

UnitsInit ==
    /\ rng = 0
    /\ builds = <<>>
    /\ phase = SETUP
    /\ turn_number = 0
    /\ rooms_avoided_consecutively = 0
    /\ last_card_was_potion = FALSE
    /\ game_over = FALSE
    /\ victory = FALSE
    /\ health = max_health
    /\ equipped_weapon = <<>>
    /\ potions_used_this_turn = 0
    /\ \/ deck \in Piles /\ current_room = <<>>
       \/ deck = <<>> /\ current_room \in {<<room>> : room \in Rooms}
    /\ discard_pile = <<>>
    /\ result = NoResult
    /\ pending = <<>>
    /\ misuse = 0
    /\ avoided_since_faced = FALSE

\* Room.face_card(index): the card returned is kept in pending
RoomFaceCard(index) ==
    /\ UNCHANGED buildVars
    /\ HasRoom
    /\ LET room == current_room[1]
           err == FaceCardError(room, index)
           card == room.cards[index + 1]
       IN  IF err # "ok"
           THEN /\ result' = Rejected("Room.face_card", err)
                /\ pending' = <<>>
                /\ UNCHANGED current_room
           ELSE /\ result' = Ok("Room.face_card")
                /\ pending' = <<card>>
                /\ current_room' =
                       <<[room EXCEPT !.cards_faced = Append(@, card)]>>
    /\ UNCHANGED <<phase, turn_number, rooms_avoided_consecutively,
                   last_card_was_potion, game_over, victory, health,
                   equipped_weapon, potions_used_this_turn, deck,
                   discard_pile, misuse, avoided_since_faced>>

\* Deck.draw: the front card, or None (<<>>) from an empty pile
DeckDraw ==
    /\ UNCHANGED buildVars
    /\ IF deck = <<>>
       THEN pending' = <<>> /\ UNCHANGED deck
       ELSE pending' = <<Head(deck)>> /\ deck' = Tail(deck)
    /\ result' = Ok("Deck.draw")
    /\ UNCHANGED <<phase, turn_number, rooms_avoided_consecutively,
                   last_card_was_potion, game_over, victory, health,
                   equipped_weapon, potions_used_this_turn, current_room,
                   discard_pile, misuse, avoided_since_faced>>

\* Deck.draw_multiple(count)
DeckDrawMultiple(count) ==
    /\ UNCHANGED buildVars
    /\ pending' = draw_multiple(deck, count)
    /\ deck' = after_draw(deck, count)
    /\ result' = Ok("Deck.draw_multiple")
    /\ UNCHANGED <<phase, turn_number, rooms_avoided_consecutively,
                   last_card_was_potion, game_over, victory, health,
                   equipped_weapon, potions_used_this_turn, current_room,
                   discard_pile, misuse, avoided_since_faced>>

\* Deck.add_to_bottom(cards), with the cards the caller has just drawn
DeckAddToBottom ==
    /\ UNCHANGED buildVars
    /\ result.op \in {"Deck.draw", "Deck.draw_multiple"}
    /\ pending # <<>>
    /\ deck' = add_to_bottom(deck, pending)
    /\ pending' = <<>>
    /\ result' = Ok("Deck.add_to_bottom")
    /\ UNCHANGED <<phase, turn_number, rooms_avoided_consecutively,
                   last_card_was_potion, game_over, victory, health,
                   equipped_weapon, potions_used_this_turn, current_room,
                   discard_pile, misuse, avoided_since_faced>>

\* Deck.peek(count): a copy of the first cards
peek(d, count) == SubSeq(d, 1, Min(count, Len(d)))

DeckPeek(count) ==
    /\ UNCHANGED buildVars
    /\ pending' = peek(deck, count)
    /\ result' = Ok("Deck.peek")
    /\ UNCHANGED <<phase, turn_number, rooms_avoided_consecutively,
                   last_card_was_potion, game_over, victory, health,
                   equipped_weapon, potions_used_this_turn, deck,
                   current_room, discard_pile, misuse, avoided_since_faced>>

UnitsNext ==
    \/ \E index \in Indices : RoomFaceCard(index)
    \/ DeckDraw
    \/ \E count \in Counts : DeckDrawMultiple(count)
    \/ DeckAddToBottom
    \/ \E count \in Counts : DeckPeek(count)

Units == UnitsInit /\ [][UnitsNext]_vars

----------------------------------------------------------------------------
(* Building piles: Deck() and Deck.from_dungeon(dungeon, seed=...) called   *)
(* by several game instances of one process. Each call fills its list of    *)
(* cards and then runs Deck.shuffle, whose two statements, random.seed and  *)
(* random.shuffle, work on the generator of module random. The generator is *)
(* modelled as a linear congruential one over RngModulus states.            *)

RngModulus == 16

\* the largest seed a pile is built with
MaxSeed == 2

\* the game instances that build a pile
Instances == 1..2

\* the seed argument: None (<<>>) or an integer
Seeds == {<<>>} \cup {<<seed>> : seed \in 1..MaxSeed}

\* Suit, with Suit.is_red
CLUBS == "clubs"
SPADES == "spades"
DIAMONDS == "diamonds"
HEARTS == "hearts"

Suits == <<CLUBS, SPADES, DIAMONDS, HEARTS>>

is_red(suit) == suit \in {DIAMONDS, HEARTS}

\* Rank.numeric_value of the 13 ranks, in the order of the enumeration
Ranks == [i \in 1..13 |-> i + 1]

\* Rank.is_face_card: jack, queen, king and ace
is_face_card(rank) == rank \in {11, 12, 13, 14}

\* Card.from_playing_card: the kind follows the suit, the value the rank
from_playing_card(rank, suit) ==
    Card(<<rank, suit>>,
         IF suit \in {CLUBS, SPADES} THEN MONSTER
         ELSE IF suit = DIAMONDS THEN WEAPON
         ELSE HEALTH_POTION,
         rank)

\* Deck._setup_deck: every suit and rank in order, red face cards skipped
RECURSIVE setup_deck_from(_, _)
setup_deck_from(s, r) ==
    IF s > Len(Suits) THEN <<>>
    ELSE IF r > Len(Ranks) THEN setup_deck_from(s + 1, 1)
    ELSE IF is_red(Suits[s]) /\ is_face_card(Ranks[r])
    THEN setup_deck_from(s, r + 1)
    ELSE <<from_playing_card(Ranks[r], Suits[s])>> \o setup_deck_from(s, r + 1)

setup_deck == setup_deck_from(1, 1)

\* the cards of a new pile before the shuffle: <<>> for Deck(), <<pool>> for
\* Deck.from_dungeon(pool)
built_cards(dungeon) ==
    IF dungeon = <<>> THEN setup_deck ELSE Expand(dungeon[1])

\* random.seed(seed): the state a seed puts the generator in
Seeded(seed) == seed % RngModulus

\* one number drawn: the generator's next state
Advance(st) == (5 * st + 3) % RngModulus

\* the number below n the generator gives in state st
randbelow(st, n) == st % n

Swap(x, i, j) == [x EXCEPT ![i] = x[j], ![j] = x[i]]

\* a shuffle that loses the card it should move
FisherYates_Overwrites(x, i, st) ==
    IF i < 2 THEN x ELSE [x EXCEPT ![i] = x[randbelow(st, i) + 1]]

\* random.shuffle from position i (1-based) down: x[i] is exchanged with one
\* of x[1..i]
RECURSIVE FisherYates(_, _, _)
FisherYates(x, i, st) ==
    IF i < 2 THEN x
    ELSE FisherYates(Swap(x, i, randbelow(st, i) + 1), i - 1, Advance(st))

\* the generator after n numbers were drawn
RECURSIVE AdvanceBy(_, _)
AdvanceBy(st, n) == IF n <= 0 THEN st ELSE AdvanceBy(Advance(st), n - 1)

Shuffled(cards, st) == FisherYates(cards, Len(cards), st)

BuildInit ==
    /\ phase = SETUP
    /\ turn_number = 0
    /\ rooms_avoided_consecutively = 0
    /\ last_card_was_potion = FALSE
    /\ game_over = FALSE
    /\ victory = FALSE
    /\ health = max_health
    /\ equipped_weapon = <<>>
    /\ potions_used_this_turn = 0
    /\ deck = <<>>
    /\ current_room = <<>>
    /\ discard_pile = <<>>
    /\ result = NoResult
    /\ pending = <<>>
    /\ misuse = 0
    /\ avoided_since_faced = FALSE
    /\ rng \in 0..(RngModulus - 1)
    /\ builds \in [Instances ->
           {[pc |-> "cards", seed |-> seed, dungeon |-> dungeon, cards |-> <<>>] :
               seed \in Seeds,
               dungeon \in {<<>>} \cup {<<pool>> : pool \in Pools}}]

\* Deck.__init__ / Deck.from_dungeon up to the call of shuffle
BuildCards(i) ==
    /\ builds[i].pc = "cards"
    /\ builds' = [builds EXCEPT ![i].cards = built_cards(builds[i].dungeon),
                                ![i].pc = "seed"]
    /\ UNCHANGED <<gameVars, result, pending, misuse, avoided_since_faced, rng>>

\* Deck.shuffle, lines 90-91: random.seed(self._seed) when a seed was given
ShuffleSeed(i) ==
    /\ builds[i].pc = "seed"
    /\ rng' = IF builds[i].seed = <<>> THEN rng ELSE Seeded(builds[i].seed[1])
    /\ builds' = [builds EXCEPT ![i].pc = "shuffle"]
    /\ UNCHANGED <<gameVars, result, pending, misuse, avoided_since_faced>>

\* Deck.shuffle, line 92: random.shuffle(self._cards)
ShuffleCards(i) ==
    /\ builds[i].pc = "shuffle"
    /\ builds' = [builds EXCEPT ![i].cards = Shuffled(builds[i].cards, rng),
                                ![i].pc = "done"]
    /\ rng' = AdvanceBy(rng, Len(builds[i].cards) - 1)
    /\ UNCHANGED <<gameVars, result, pending, misuse, avoided_since_faced>>

BuildNext ==
    \/ \E i \in Instances : BuildCards(i)
    \/ \E i \in Instances : ShuffleSeed(i)
    \/ \E i \in Instances : ShuffleCards(i)

Build == BuildInit /\ [][BuildNext]_vars

----------------------------------------------------------------------------
(* Properties *)

Last(s) == s[Len(s)]

\* this step is a call of `op` that returned success
Succeeds(op) == result'.op = op /\ result'.success

\* this step is a face_card call that faced a card of the current room
Faces ==
    /\ Succeeds("face_card")
    /\ HasRoom /\ current_room' # <<>>
    /\ current_room'[1].cards = current_room[1].cards
    /\ Len(current_room'[1].cards_faced) = Len(current_room[1].cards_faced) + 1

FacedCard == Last(current_room'[1].cards_faced)

\* C1: every call that returns a rejected outcome (success = false) leaves
\* the whole game state as it was before the call.
C1_RejectedCallChangesNothing ==
    [][~result'.success => UNCHANGED gameVars]_vars

\* C2: avoid_room never succeeds twice without a room in which 3 cards were
\* faced in between.
C2_NoTwoAvoidsWithoutFacedRoom ==
    [][Succeeds("avoid_room") => ~avoided_since_faced]_vars

\* C3: avoid_room succeeds only in phase decide_avoid, on a room of 4 slots
\* none of which has been faced.
C3_AvoidOnlyUntouchedRoom ==
    [][Succeeds("avoid_room") =>
          /\ phase = DECIDE_AVOID
          /\ HasRoom
          /\ Len(current_room[1].cards) = 4
          /\ current_room[1].cards_faced = <<>>]_vars

\* the cards in play: the pile, the discard, the unfaced slots of the room,
\* the faced monster awaiting its fight, the weapon and its slain monsters
CardsInPlay ==
    Len(deck) + Len(discard_pile)
    + (IF HasRoom
       THEN Len(current_room[1].cards) - Len(current_room[1].cards_faced)
       ELSE 0)
    + Len(pending)
    + (IF equipped_weapon = <<>> THEN 0
       ELSE 1 + Len(equipped_weapon[1].slain_monsters))

\* C4: no call duplicates a card or makes one vanish: the number of cards
\* in play never changes.
C4_CardsConserved == [][CardsInPlay' = CardsInPlay]_vars

\* C5: whenever game_over is set the phase is game_over.
C5_GameOverImpliesPhase == game_over => phase = GAME_OVER

\* C6: once game_over is set no call succeeds or changes health, pile,
\* discard, room, turn counter, phase, victory or score.
C6_GameOverIsTerminal ==
    [][game_over =>
          /\ ~result'.success
          /\ UNCHANGED <<health, deck, discard_pile, current_room,
                         turn_number, phase, victory>>
          /\ score' = score]_vars

\* C7: a driver that keeps making protocol calls reaches game_over.
C7_GameEnds == <>game_over

\* C8: a fight ends the game only as a loss with health 0; when the player
\* survives a fight the game is not over.
C8_FightEndsOnlyAsLoss ==
    [][(Succeeds("fight_monster_barehanded")
           \/ Succeeds("fight_monster_with_weapon")) /\ ~game_over =>
          IF health' = 0 THEN game_over' /\ ~victory' ELSE ~game_over']_vars

\* C9: a room never holds more than 4 slots or more than 3 faced cards,
\* and once 3 cards are faced Room.face_card raises the quota error for
\* every index, in and out of range.
C9_RoomQuota ==
    HasRoom =>
        /\ Len(current_room[1].cards) <= 4
        /\ Len(current_room[1].cards_faced) <= 3
        /\ Len(current_room[1].cards_faced) = 3 =>
               \A index \in Indices :
                   FaceCardError(current_room[1], index) = "quota"

\* a face_card call reached a room with 3 faced cards and was turned down
\* with the quota error
C9_Witness ==
    /\ HasRoom
    /\ Len(current_room[1].cards_faced) = 3
    /\ result.op = "face_card"
    /\ result.error = "quota"

HasPotion(s) == \E i \in 1..Len(s) : s[i].card_type = HEALTH_POTION

\* C10: a potion faced after another potion of the same turn (the faced
\* list of the turn's room already holds a potion) leaves health unchanged
\* and is appended to the discard.
C10_PotionCap ==
    [][Faces /\ FacedCard.card_type = HEALTH_POTION
             /\ HasPotion(current_room[1].cards_faced) =>
          /\ health' = health
          /\ discard_pile' = Append(discard_pile, FacedCard)]_vars

\* the second potion of a turn was discarded after the first healed 0 at
\* full health
C10_Witness ==
    /\ HasRoom
    /\ Len(current_room[1].cards_faced) = 2
    /\ \A i \in 1..2 : current_room[1].cards_faced[i].card_type = HEALTH_POTION
    /\ discard_pile = current_room[1].cards_faced
    /\ health = max_health
    /\ result.op = "face_card"
    /\ result.success

\* this step is a call of `op` on `card`
Calls(op, card) == result'.op = op /\ result'.monster = <<card>>

\* C11: Weapon.can_kill on a monster returns true iff the weapon has no
\* kills or the monster's value is at most the value of the most recent
\* kill (the last entry of the slain list); on a card that is not a monster
\* it raises a domain error.
C11_CanKillByLastKill ==
    [][\A card \in UnitCards :
          Calls("can_kill", card) =>
              LET slain == equipped_weapon[1].slain_monsters
              IN  IF card.card_type = MONSTER
                  THEN /\ result'.success
                       /\ result'.can_use_weapon =
                              (slain = <<>> \/ card.value <= Last(slain).value)
                  ELSE /\ ~result'.success
                       /\ result'.error = "not_monster"]_vars

\* can_kill accepted a monster stronger than the weapon's weakest kill,
\* because the most recent kill was at least as strong
C11_Witness ==
    /\ result.op = "can_kill"
    /\ result.success
    /\ result.can_use_weapon
    /\ equipped_weapon # <<>>
    /\ LET slain == equipped_weapon[1].slain_monsters
       IN  /\ Len(slain) >= 2
           /\ slain[1].value < result.monster[1].value
           /\ result.monster[1].value <= Last(slain).value

\* C12: Weapon.attack on a monster the weapon can kill returns
\* max(0, monster.value - weapon.value) and appends the monster as the last
\* entry of the slain list; on a monster it cannot kill it raises a domain
\* error and leaves the slain list as it was.
C12_AttackRecordsKill ==
    [][\A card \in UnitMonsters :
          Calls("attack", card) =>
              LET weapon == equipped_weapon[1]
                  slain == weapon.slain_monsters
              IN  IF slain = <<>> \/ card.value <= Last(slain).value
                  THEN /\ result'.success
                       /\ result'.damage_taken =
                              (IF card.value > weapon.card.value
                               THEN card.value - weapon.card.value ELSE 0)
                       /\ equipped_weapon'[1].slain_monsters = Append(slain, card)
                       /\ Last(equipped_weapon'[1].slain_monsters).value = card.value
                  ELSE /\ ~result'.success
                       /\ UNCHANGED equipped_weapon]_vars

\* an attack with a weapon stronger than the monster took 0 damage and
\* recorded the kill
C12_Witness ==
    /\ result.op = "attack"
    /\ result.success
    /\ result.damage_taken = 0
    /\ equipped_weapon # <<>>
    /\ equipped_weapon[1].slain_monsters # <<>>
    /\ Last(equipped_weapon[1].slain_monsters) = result.monster[1]
    /\ result.monster[1].value < equipped_weapon[1].card.value

\* C13: health stays within 0..max_health, and the player is dead exactly
\* when health is 0: damage beyond the current health stops at 0 and healing
\* beyond max_health stops at max_health.
C13_HealthInRange ==
    /\ health \in 0..max_health
    /\ is_dead <=> health = 0

\* a player who never had a weapon nor faced a potion was hit barehanded for
\* more than max_health in all, and health stopped at 0
C13_Witness ==
    /\ health = 0
    /\ result.op = "fight_monster_barehanded"
    /\ result.success
    /\ equipped_weapon = <<>>
    /\ \A i \in 1..Len(discard_pile) : discard_pile[i].card_type = MONSTER
    /\ MonsterSum(discard_pile) > max_health

\* the values of the cards of kind `kind` in the sequence s, added up
RECURSIVE ValueOfKind(_, _)
ValueOfKind(s, kind) ==
    IF s = <<>> THEN 0
    ELSE (IF Head(s).card_type = kind THEN Head(s).value ELSE 0)
             + ValueOfKind(Tail(s), kind)

\* C14: the score is 0 while the game is not over, the player's health
\* after a victory, and after a loss minus the sum of the values of the
\* monsters in the draw pile: other pile cards, the room, the discard and
\* the weapon's kills count for nothing.
C14_Score ==
    score = IF ~game_over THEN 0
            ELSE IF victory THEN health
            ELSE 0 - ValueOfKind(deck, MONSTER)

\* a lost game whose pile holds a monster and other cards, with monsters
\* in the discard too
C14_Witness ==
    /\ game_over
    /\ ~victory
    /\ score < 0
    /\ ValueOfKind(deck, WEAPON) + ValueOfKind(deck, HEALTH_POTION) > 0
    /\ ValueOfKind(discard_pile, MONSTER) > 0
    /\ HasRoom

\* the call `A` made in this step could not have led to any other state
OnlyOutcome(A) == \A next \in {vars'} : A => ~ENABLED (A /\ vars' # next)

\* C15: the engine is a deterministic function of state and action: from
\* one state, one call with one argument leads to one state only, so two
\* games started from the same pile and fed the same calls pass through the
\* same states.
C15_Deterministic ==
    [][CASE result'.op = "start_game" -> OnlyOutcome(StartGame)
         [] result'.op = "draw_room" -> OnlyOutcome(DrawRoom)
         [] result'.op = "avoid_room" -> OnlyOutcome(AvoidRoom)
         [] result'.op = "face_card" ->
                \A index \in Indices : OnlyOutcome(FaceCard(index))
         [] result'.op = "fight_monster_barehanded" ->
                \A monster \in Monsters :
                    OnlyOutcome(FightMonsterBarehanded(monster))
         [] result'.op = "fight_monster_with_weapon" ->
                \A monster \in Monsters :
                    OnlyOutcome(FightMonsterWithWeapon(monster))
         [] result'.op = "mark_quit" -> OnlyOutcome(MarkQuit)]_vars

\* a game played by the protocol into its second room and through a fight
\* with the weapon: every call on the way had a single outcome
C15_Witness ==
    /\ result.op = "fight_monster_with_weapon"
    /\ result.success
    /\ turn_number >= 2
    /\ misuse = 0

\* how many entries of the sequence s equal the card c
Copies(c, s) == Cardinality({i \in 1..Len(s) : s[i] = c})

\* the slots of a room left over once its faced cards are taken out, one
\* slot per faced card, in slot order
NeverFaced(room) ==
    LET keep == {i \in 1..Len(room.cards) :
                    Copies(room.cards[i], SubSeq(room.cards, 1, i))
                        > Copies(room.cards[i], room.cards_faced)}
        RECURSIVE Pick(_)
        Pick(i) == IF i > Len(room.cards) THEN <<>>
                   ELSE (IF i \in keep THEN <<room.cards[i]>> ELSE <<>>)
                            \o Pick(i + 1)
    IN  Pick(1)

\* C16: the draw_room that follows a room with 3 cards faced builds a room
\* whose slot 0 is that room's one never-faced card and whose slots 1-3 are
\* the top 3 pile cards in order, the pile shrinking by 3; with no completed
\* room before it the 4 slots are the top 4 pile cards, the pile shrinking
\* by 4.  (The pile holds the 3, or 4, cards the room needs.)
C16_LeftoverCarriedOver ==
    [][Succeeds("draw_room") =>
          IF HasRoom /\ Len(current_room[1].cards_faced) = 3
          THEN Len(deck) >= 3 =>
                  /\ Len(NeverFaced(current_room[1])) = 1
                  /\ current_room' =
                         <<[cards |-> NeverFaced(current_room[1])
                                         \o SubSeq(deck, 1, 3),
                            cards_faced |-> <<>>]>>
                  /\ deck' = SubSeq(deck, 4, Len(deck))
          ELSE Len(deck) >= 4 =>
                  /\ current_room' =
                         <<[cards |-> SubSeq(deck, 1, 4), cards_faced |-> <<>>]>>
                  /\ deck' = SubSeq(deck, 5, Len(deck))]_vars

\* the cards a draw_room call can assemble: the never-faced card of a room
\* with 3 cards faced, and the whole pile
CanAssemble ==
    (IF HasRoom /\ Len(current_room[1].cards_faced) = 3
     THEN Len(NeverFaced(current_room[1])) ELSE 0) + Len(deck)

\* C17: a draw_room call made in phase draw_room or turn_complete that can
\* assemble fewer than 4 cards ends the game with game_over and victory
\* set, installs no room, leaves the turn counter alone, and reports in its
\* outcome the victory flag of the state.
C17_ShortDrawIsVictory ==
    [][result'.op = "draw_room" /\ phase \in {DRAW_ROOM, TURN_COMPLETE}
           /\ CanAssemble < 4 =>
          /\ game_over' /\ victory'
          /\ current_room' = current_room
          /\ turn_number' = turn_number
          /\ result'.victory = victory']_vars

\* C18: a successful avoid_room appends the 4 room cards to the bottom of
\* the pile in slot order, sets the avoid counter to 1, clears the room,
\* sets phase draw_room, and leaves health, weapon, discard and turn
\* counter alone.
C18_AvoidRoomEffect ==
    [][Succeeds("avoid_room") =>
          /\ HasRoom
          /\ Len(current_room[1].cards) = 4
          /\ deck' = deck \o current_room[1].cards
          /\ Len(deck') = Len(deck) + 4
          /\ rooms_avoided_consecutively' = 1
          /\ current_room' = <<>>
          /\ phase' = DRAW_ROOM
          /\ UNCHANGED <<health, equipped_weapon, discard_pile,
                         turn_number>>]_vars

\* a driver avoided a room while the pile was not empty: the 4 room cards
\* are under the cards the pile held
C18_Witness ==
    /\ result.op = "avoid_room"
    /\ result.success
    /\ misuse = 0
    /\ ~HasRoom
    /\ phase = DRAW_ROOM
    /\ rooms_avoided_consecutively = 1
    /\ Len(deck) > 4

\* C19: draw_room succeeds only in phase draw_room or turn_complete and
\* face_card only in phase decide_avoid or face_cards; in every other
\* phase, setup and game_over included, the call is rejected.
C19_PhaseGuards ==
    [][/\ result'.op = "draw_room" /\ phase \notin {DRAW_ROOM, TURN_COMPLETE}
           => ~result'.success
       /\ result'.op = "face_card" /\ phase \notin {DECIDE_AVOID, FACE_CARDS}
           => ~result'.success]_vars

\* a draw_room call made before start_game was rejected
C19_Witness ==
    /\ result.op = "draw_room"
    /\ ~result.success
    /\ result.error = "phase"
    /\ phase = SETUP

\* this step is a draw_room call that installed a room
InstallsRoom ==
    /\ Succeeds("draw_room")
    /\ phase' = DECIDE_AVOID

\* C20: the turn counter changes only in a draw_room call that installs a
\* full room of 4 cards, which adds exactly 1 to it, resets the potion
\* counter to 0, clears the last-card-was-potion flag and sets phase
\* decide_avoid; every other call leaves the turn counter as it is.
C20_TurnCounter ==
    [][/\ turn_number' # turn_number => InstallsRoom
       /\ InstallsRoom =>
              /\ turn_number' = turn_number + 1
              /\ current_room' # <<>>
              /\ Len(current_room'[1].cards) = 4
              /\ current_room'[1].cards_faced = <<>>
              /\ potions_used_this_turn' = 0
              /\ ~last_card_was_potion'
       /\ result'.op = "draw_room" /\ ~InstallsRoom =>
              turn_number' = turn_number]_vars

\* the second room of a game was installed after a turn in which a potion
\* had healed: the turn counter is 2 and the potion counter is back at 0
C20_Witness ==
    /\ result.op = "draw_room"
    /\ result.success
    /\ phase = DECIDE_AVOID
    /\ turn_number = 2
    /\ potions_used_this_turn = 0
    /\ ~last_card_was_potion
    /\ HasPotion(discard_pile)
    /\ health < max_health

\* the phase changes the rules allow, besides a step into game_over
PhaseEdges ==
    {<<SETUP, DRAW_ROOM>>, <<DRAW_ROOM, DECIDE_AVOID>>,
     <<TURN_COMPLETE, DECIDE_AVOID>>, <<DECIDE_AVOID, DRAW_ROOM>>,
     <<DECIDE_AVOID, FACE_CARDS>>, <<FACE_CARDS, TURN_COMPLETE>>}

\* C21: the phase changes only along setup -> draw_room, draw_room ->
\* decide_avoid, turn_complete -> decide_avoid, decide_avoid -> draw_room,
\* decide_avoid -> face_cards, face_cards -> turn_complete, or into
\* game_over; start_game changes it only when called in setup, and it never
\* returns to setup.
C21_PhaseEdges ==
    [][/\ phase' # phase =>
              \/ <<phase, phase'>> \in PhaseEdges
              \/ phase' = GAME_OVER
       /\ result'.op = "start_game" /\ phase # SETUP => phase' = phase
       /\ phase # SETUP => phase' # SETUP]_vars

\* this step is a fight call that returned success
Fights ==
    \/ Succeeds("fight_monster_barehanded")
    \/ Succeeds("fight_monster_with_weapon")

\* C22: the phase becomes turn_complete exactly when the third faced card
\* of a room is resolved, in the face_card call for a weapon or a potion
\* and in the successful fight for a monster, never with fewer than 3 cards
\* faced or with the third monster still to fight; from turn_complete the
\* only engine operation that succeeds is draw_room.
C22_TurnComplete ==
    [][/\ phase # TURN_COMPLETE /\ phase' = TURN_COMPLETE =>
              /\ current_room' # <<>>
              /\ Len(current_room'[1].cards_faced) = 3
              /\ \/ Faces /\ FacedCard.card_type # MONSTER
                 \/ Fights
       /\ Faces /\ Len(current_room'[1].cards_faced) = 3
                /\ FacedCard.card_type # MONSTER => phase' = TURN_COMPLETE
       /\ Faces /\ FacedCard.card_type = MONSTER => phase' # TURN_COMPLETE
       /\ Fights /\ pending # <<>> /\ pending' = <<>> /\ HasRoom
                 /\ Len(current_room[1].cards_faced) = 3 =>
              phase' = TURN_COMPLETE
       /\ phase = TURN_COMPLETE /\ result'.success
              /\ result'.op # "mark_quit" => result'.op = "draw_room"]_vars

\* C23: face_card on a monster slot resolves no damage: the monster is
\* appended to the room's faced list, a call made in decide_avoid moves the
\* phase to face_cards and zeroes the avoid counter, and health, weapon with
\* its slain list, discard and draw pile stay as they were; the outcome's
\* can_use_weapon flag is true iff a weapon is equipped and either has no
\* kill yet or the monster's value is at most that of its last kill.
C23_FaceMonster ==
    [][Faces /\ FacedCard.card_type = MONSTER =>
          /\ current_room'[1].cards_faced =
                 Append(current_room[1].cards_faced, FacedCard)
          /\ phase' = IF phase = DECIDE_AVOID THEN FACE_CARDS ELSE phase
          /\ rooms_avoided_consecutively' =
                 IF phase = DECIDE_AVOID THEN 0
                 ELSE rooms_avoided_consecutively
          /\ UNCHANGED <<health, equipped_weapon, discard_pile, deck,
                         game_over, victory, turn_number,
                         potions_used_this_turn>>
          /\ result'.monster = <<FacedCard>>
          /\ result'.damage_taken = 0
          /\ result'.can_use_weapon =
                 /\ equipped_weapon # <<>>
                 /\ \/ equipped_weapon[1].slain_monsters = <<>>
                    \/ FacedCard.value <=
                           Last(equipped_weapon[1].slain_monsters).value]_vars

\* a monster faced right after a weapon, in the room that follows an
\* avoided one: the avoid counter is back to 0 and the weapon can be used
C23_Witness ==
    /\ result.op = "face_card"
    /\ result.success
    /\ result.monster # <<>>
    /\ result.can_use_weapon
    /\ pending = result.monster
    /\ misuse = 0
    /\ avoided_since_faced
    /\ rooms_avoided_consecutively = 0
    /\ phase = FACE_CARDS
    /\ equipped_weapon # <<>>
    /\ health = max_health
    /\ discard_pile = <<>>

\* C24: a barehanded fight with a monster sets health to
\* max(0, health - monster.value), appends the monster to the discard,
\* leaves the equipped weapon with its slain list as it was, reports
\* damage_taken = monster.value, and reports the death of the player iff
\* health is 0 afterwards, in which case game_over is set and victory is not.
C24_Barehanded ==
    [][Succeeds("fight_monster_barehanded") =>
          \E monster \in Monsters :
              /\ result'.damage_taken = monster.value
              /\ health' = Max(0, health - monster.value)
              /\ discard_pile' = Append(discard_pile, monster)
              /\ UNCHANGED <<equipped_weapon, deck, current_room>>
              /\ result'.player_died = (health' = 0)
              /\ health' = 0 => game_over' /\ ~victory']_vars

\* a fatal barehanded fight with a weapon in hand, in a game that still has
\* cards in the pile
C24_Witness ==
    /\ result.op = "fight_monster_barehanded"
    /\ result.success
    /\ result.player_died
    /\ result.damage_taken = 14
    /\ health = 0
    /\ game_over /\ ~victory
    /\ equipped_weapon # <<>>
    /\ equipped_weapon[1].slain_monsters = <<>>
    /\ Last(discard_pile).card_type = MONSTER
    /\ deck # <<>>
    /\ misuse = 0

\* C25: a fight with the weapon is rejected, with no change of the game
\* state, when no weapon is equipped or when the weapon cannot kill the
\* monster (it has a last kill of lower value); otherwise health becomes
\* max(0, health - max(0, monster.value - weapon.value)), the monster is
\* appended to the weapon's slain list and not to the discard, and the
\* reported damage is max(0, monster.value - weapon.value).
C25_WithWeapon ==
    [][result'.op = "fight_monster_with_weapon" =>
          /\ equipped_weapon = <<>> => ~result'.success
          /\ ~result'.success =>
                 /\ UNCHANGED gameVars
                 /\ \/ equipped_weapon = <<>>
                    \/ \E monster \in Monsters :
                           /\ equipped_weapon[1].slain_monsters # <<>>
                           /\ monster.value >
                                  Last(equipped_weapon[1].slain_monsters).value
          /\ result'.success =>
                 \E monster \in Monsters :
                     LET weapon == equipped_weapon[1]
                         damage == Max(0, monster.value - weapon.card.value)
                     IN  /\ \/ weapon.slain_monsters = <<>>
                            \/ monster.value <= Last(weapon.slain_monsters).value
                         /\ result'.damage_taken = damage
                         /\ health' = Max(0, health - damage)
                         /\ equipped_weapon' = <<[weapon EXCEPT
                                !.slain_monsters = Append(@, monster)]>>
                         /\ UNCHANGED <<discard_pile, deck, current_room>>]_vars

\* a second kill with the same weapon, of a monster no stronger than the
\* first, both kept on the weapon and none in the discard
C25_Witness ==
    /\ result.op = "fight_monster_with_weapon"
    /\ result.success
    /\ equipped_weapon # <<>>
    /\ Len(equipped_weapon[1].slain_monsters) = 2
    /\ \A i \in 1..Len(discard_pile) : discard_pile[i].card_type # MONSTER
    /\ health < max_health
    /\ misuse = 0

\* C26: face_card on a weapon slot equips a new weapon with an empty slain
\* list, which every monster can be fought with again; a weapon equipped
\* before goes to the discard, its card first and then its slain monsters
\* in kill order; health and draw pile are unchanged.
C26_FaceWeapon ==
    [][Faces /\ FacedCard.card_type = WEAPON =>
          /\ equipped_weapon' =
                 <<[card |-> FacedCard, slain_monsters |-> <<>>]>>
          /\ \A monster \in Monsters : can_kill(equipped_weapon'[1], monster)
          /\ discard_pile' = discard_pile \o
                 (IF equipped_weapon = <<>> THEN <<>>
                  ELSE <<equipped_weapon[1].card>> \o
                           equipped_weapon[1].slain_monsters)
          /\ UNCHANGED <<health, deck>>]_vars

\* a weapon picked up over a used one: the old card and its kill are the
\* last two cards of the discard
C26_Witness ==
    /\ result.op = "face_card"
    /\ result.success
    /\ result.monster = <<>>
    /\ equipped_weapon # <<>>
    /\ equipped_weapon[1].slain_monsters = <<>>
    /\ Len(discard_pile) >= 2
    /\ discard_pile[Len(discard_pile) - 1].card_type = WEAPON
    /\ Last(discard_pile).card_type = MONSTER
    /\ HasRoom
    /\ Last(current_room[1].cards_faced) = equipped_weapon[1].card
    /\ misuse = 0

\* C27: facing the first potion of a turn sets health to
\* min(max_health, health + potion.value), reports as health gained the
\* actual increase (new health minus old health, possibly 0), sets the
\* potion counter of the turn to 1 and appends the potion to the discard.
C27_FirstPotion ==
    [][Faces /\ FacedCard.card_type = HEALTH_POTION
             /\ potions_used_this_turn = 0 =>
          /\ health' = Min(max_health, health + FacedCard.value)
          /\ result'.health_gained = health' - health
          /\ potions_used_this_turn' = 1
          /\ discard_pile' = Append(discard_pile, FacedCard)
          /\ UNCHANGED <<equipped_weapon, deck>>]_vars

\* a potion that heals less than its value because of the cap
C27_Witness ==
    /\ result.op = "face_card"
    /\ result.success
    /\ result.health_gained > 0
    /\ discard_pile # <<>>
    /\ Last(discard_pile).card_type = HEALTH_POTION
    /\ result.health_gained < Last(discard_pile).value
    /\ health = max_health
    /\ potions_used_this_turn = 1
    /\ misuse = 0

\* C28: Room.face_card(index) raises the index error when index < 0 or
\* index >= the number of cards of the room, and the already-faced error
\* when the card of that slot is in the faced list; in both cases the faced
\* list is unchanged. Otherwise the card of that slot is appended as the
\* last entry of the faced list and returned.
C28_RoomFaceCard ==
    [][\A index \in Indices :
          RoomFaceCard(index) =>
              LET room == current_room[1]
              IN  IF index < 0 \/ index >= Len(room.cards)
                  THEN /\ result'.error = "index"
                       /\ UNCHANGED current_room
                  ELSE IF InSeq(room.cards[index + 1], room.cards_faced)
                  THEN /\ result'.error = "faced"
                       /\ UNCHANGED current_room
                  ELSE /\ result'.success
                       /\ current_room'[1].cards = room.cards
                       /\ current_room'[1].cards_faced =
                              Append(room.cards_faced, room.cards[index + 1])
                       /\ pending' = <<room.cards[index + 1]>>]_vars

\* C29: the draw pile is a first-in first-out queue: draw removes and
\* returns the front card, and returns None from an empty pile, which it
\* leaves as it is; draw_multiple(count) returns the first
\* min(count, size) cards in pile order and removes them; add_to_bottom
\* appends the cards at the back in the order given, so that they are drawn
\* again in that order and only after every card the pile held before; peek
\* changes nothing.
C29_DeckIsFifo ==
    [][/\ result'.op = "Deck.draw" =>
              IF deck = <<>> THEN pending' = <<>> /\ deck' = <<>>
              ELSE pending' = <<deck[1]>> /\ deck = pending' \o deck'
       /\ \A count \in Counts :
              DeckDrawMultiple(count) =>
                  /\ Len(pending') = Min(count, Len(deck))
                  /\ deck = pending' \o deck'
       /\ result'.op = "Deck.add_to_bottom" =>
              /\ deck' = deck \o pending
              /\ draw_multiple(deck', Len(deck)) = deck
              /\ draw_multiple(after_draw(deck', Len(deck)), Len(pending))
                     = pending
       /\ result'.op = "Deck.peek" =>
              /\ UNCHANGED deck
              /\ \E count \in Counts :
                     /\ Len(pending') = Min(count, Len(deck))
                     /\ \A i \in 1..Len(pending') : pending'[i] = deck[i]]_vars

\* four cards drawn from a longer pile and put back under it
C29_Witness ==
    /\ result.op = "Deck.add_to_bottom"
    /\ pending = <<>>
    /\ Len(deck) >= 6
    /\ \E pile \in Piles : Len(pile) = Len(deck) /\ deck = Rotate(pile, 4)
    /\ deck \notin Piles

\* this step is a call that ran the terminal check: a successful fight, or
\* a draw_room that could not fill a room
RunsTerminalCheck ==
    \/ Fights
    \/ Succeeds("draw_room") /\ ~InstallsRoom

\* C30: the terminal check gives death precedence over the exhaustion of the
\* pile: with health 0 the game is over with victory false, even with an
\* empty pile; with health above 0 and an empty pile the game is over with
\* victory true; otherwise neither flag changes and the phase does not
\* become game_over.
C30_DeathBeforeExhaustion ==
    [][RunsTerminalCheck =>
          IF health' = 0 THEN game_over' /\ ~victory'
          ELSE IF deck' = <<>> THEN game_over' /\ victory'
          ELSE /\ UNCHANGED <<game_over, victory>>
               /\ phase' \in {phase, TURN_COMPLETE}]_vars

\* a fatal fight with the pile already empty
C30_Witness ==
    /\ result.op \in {"fight_monster_barehanded", "fight_monster_with_weapon"}
    /\ result.success
    /\ result.player_died
    /\ health = 0
    /\ deck = <<>>
    /\ game_over
    /\ ~victory
    /\ misuse = 0

\* C31: the count of rooms avoided in a row is 0 or 1 in every reachable
\* state; it becomes 1 only in an avoid_room call that succeeds, and every
\* such call makes it 1; it returns to 0 only in a face_card call made in
\* phase decide_avoid.
C31_AvoidCounter ==
    [][/\ rooms_avoided_consecutively \in {0, 1}
       /\ rooms_avoided_consecutively' \in {0, 1}
       /\ rooms_avoided_consecutively' > rooms_avoided_consecutively =>
              Succeeds("avoid_room")
       /\ Succeeds("avoid_room") => rooms_avoided_consecutively' = 1
       /\ rooms_avoided_consecutively' < rooms_avoided_consecutively =>
              result'.op = "face_card" /\ phase = DECIDE_AVOID]_vars

\* the first card of the room that follows an avoided one has been faced
C31_Witness ==
    /\ result.op = "face_card"
    /\ avoided_since_faced
    /\ rooms_avoided_consecutively = 0
    /\ turn_number = 2
    /\ phase = FACE_CARDS
    /\ HasRoom
    /\ Len(current_room[1].cards_faced) = 1
    /\ misuse = 0

\* this step faced a potion that healed: the first potion of its turn
FacesHealingPotion ==
    /\ Faces
    /\ FacedCard.card_type = HEALTH_POTION
    /\ potions_used_this_turn = 0

\* C32: last_card_was_potion is true exactly when the card faced last in
\* the current turn was a potion used to heal: a new turn starts with the
\* flag false, a healing potion sets it, and facing a weapon, a monster or
\* a wasted potion clears it.
C32_LastCardWasPotion ==
    [][/\ InstallsRoom => ~last_card_was_potion'
       /\ FacesHealingPotion => last_card_was_potion'
       /\ Faces /\ ~FacesHealingPotion => ~last_card_was_potion']_vars

\* C33: a pile built with a seed has, when its build is finished, the order
\* it has when it is built alone with that seed, whatever the builds of
\* other game instances did in between.
C33_BuildIsolated ==
    \A i \in DOMAIN builds :
        builds[i].pc = "done" /\ builds[i].seed # <<>> =>
            builds[i].cards =
                Shuffled(built_cards(builds[i].dungeon),
                         Seeded(builds[i].seed[1]))

\* how many cards of the sequence s satisfy the test
CountWhere(s, Test(_)) == Cardinality({k \in 1..Len(s) : Test(s[k])})

RECURSIVE SumOfCounts(_)
SumOfCounts(defs) ==
    IF defs = <<>> THEN 0 ELSE Head(defs).count + SumOfCounts(Tail(defs))

C35_FightFollowsFacing ==
    [][/\ Fights => pending # <<>> /\ pending' = <<>>
       /\ \/ Succeeds("face_card")
          \/ Succeeds("avoid_room")
          \/ Succeeds("draw_room") => pending = <<>>]_vars

\* C36: no room is stuck: while the game is not over and the current room,
\* in a phase that takes face_card calls, has fewer than 3 cards faced, the
\* room accepts at least one slot index - also a room that holds several
\* copies of one pool definition.
C36_NoStuckRoom ==
    /\ HasRoom
    /\ ~game_over
    /\ phase \in face_card_phases
    /\ Len(current_room[1].cards_faced) < 3
    => \E index \in 0..3 : FaceCardError(current_room[1], index) = "ok"

\* the values of the sequence of cards s never rise from one card to the next
NonIncreasing(s) ==
    \A i, j \in 1..Len(s) : i < j => s[i].value >= s[j].value

\* C37: the kills of a weapon have non-increasing values in kill order, so
\* the value of its last kill is the lowest of all its kills; the value a
\* weapon is bounded by never rises while it is equipped, and the bound goes
\* away only when a newly faced weapon is equipped.
C37_KillsNonIncreasing ==
    [][/\ equipped_weapon' # <<>> =>
              LET slain == equipped_weapon'[1].slain_monsters
              IN  /\ NonIncreasing(slain)
                  /\ \A i \in 1..Len(slain) : Last(slain).value <= slain[i].value
       /\ /\ equipped_weapon # <<>>
          /\ equipped_weapon[1].slain_monsters # <<>>
          /\ equipped_weapon' # <<>>
          /\ \/ equipped_weapon'[1].slain_monsters = <<>>
             \/ Last(equipped_weapon'[1].slain_monsters).value >
                    Last(equipped_weapon[1].slain_monsters).value
          => /\ Faces
             /\ FacedCard.card_type = WEAPON
             /\ equipped_weapon' = <<NewWeapon(FacedCard)>>]_vars

\* a weapon whose second kill is weaker than its first
C37_Witness ==
    /\ equipped_weapon # <<>>
    /\ Len(equipped_weapon[1].slain_monsters) = 2
    /\ equipped_weapon[1].slain_monsters[1].value >
           equipped_weapon[1].slain_monsters[2].value
    /\ result.op = "fight_monster_with_weapon"
    /\ result.success

\* C38: in every reachable state victory implies game_over and health
\* above 0; the score of a won game is at least 1 and the score of a lost
\* game is at most 0.
C38_VictoryAlive ==
    /\ victory => game_over /\ health > 0
    /\ game_over /\ victory => score >= 1
    /\ game_over /\ ~victory => score <= 0

\* a game won with health lost on the way
C38_Witness ==
    /\ victory
    /\ game_over
    /\ health > 0
    /\ health < max_health
    /\ score = health
    /\ deck = <<>>
    /\ misuse = 0

\* C39: phase and room agree in every reachable state: in decide_avoid the
\* room exists with 4 cards and none faced; in face_cards it exists with 4
\* cards and 1 to 3 of them faced; in turn_complete it exists with exactly
\* 3 cards faced; and the faced list never holds a card twice nor a card
\* that is not in the room.
C39_PhaseAndRoomAgree ==
    /\ phase = DECIDE_AVOID =>
           /\ HasRoom
           /\ Len(current_room[1].cards) = 4
           /\ current_room[1].cards_faced = <<>>
    /\ phase = FACE_CARDS =>
           /\ HasRoom
           /\ Len(current_room[1].cards) = 4
           /\ Len(current_room[1].cards_faced) \in 1..3
    /\ phase = TURN_COMPLETE =>
           /\ HasRoom
           /\ Len(current_room[1].cards_faced) = 3
    /\ HasRoom =>
           LET faced == current_room[1].cards_faced
           IN  /\ \A i, j \in 1..Len(faced) : faced[i] = faced[j] => i = j
               /\ \A i \in 1..Len(faced) : InSeq(faced[i], current_room[1].cards)

====
